---- MODULE Spec2Model ----
(***************************************************************************)
(* TCS3200 colour sensor driver (src/dev/calibration.py, meas_freq.py):    *)
(* the edge-counting measurement core, its timeout and cancellation paths, *)
(* the blocking three-colour read and the calibration run.                 *)
(*                                                                         *)
(* Execution contexts: one application thread (position pc) and the        *)
(* callback context in which the pin interrupt handler _cbf and the timer  *)
(* callback _timeout_handler run.  A callback runs to completion; property *)
(* setters of the application thread are atomic with respect to callbacks. *)
(* An exception raised inside a callback ends that callback only: nothing  *)
(* in the source carries it into the application thread.                   *)
(***************************************************************************)
EXTENDS Integers, Sequences, FiniteSets, TLC

(* ------------------------------ bounds --------------------------------- *)
\* time.ticks_us() wraps; the model's counter wraps at TICKS_PERIOD
TICKS_PERIOD == 8
\* largest value handed to the cycles setter
MaxCycles == 2
\* the constructor's number of cycles (10 in meas_freq.py:95, 100 in
\* calibration.py:110), scaled down to keep the edge count small
InitCycles == 2
\* calls of calibrate() and of meas_freqs the application makes
MaxCalls == 1

\* Periods of the OUT signal, in ticks: the fastest one, and the one at which
\* InitCycles periods take the tick counter once around, so that the
\* completing edge reads the tick of the first edge.
WrapPeriod == TICKS_PERIOD \div InitCycles
Periods == {1, WrapPeriod}
CycleInputs == -1 .. MaxCycles
Ticks == 0 .. (TICKS_PERIOD - 1)

(* ------------------------- class variables ----------------------------- *)
ON == TRUE
OFF == FALSE

RED == <<0, 0>>
BLUE == <<0, 1>>
GREEN == <<1, 1>>
CLEAR == <<1, 0>>
Filters == {RED, BLUE, GREEN, CLEAR}

RED_COMP == 0
GREEN_COMP == 1
BLUE_COMP == 2
Comps == {RED_COMP, GREEN_COMP, BLUE_COMP}

WHITE == TRUE
BLACK == FALSE

(* ------------------------- value encodings ----------------------------- *)
\* Python None, and an instance attribute that was never assigned
None == <<>>
\* an assigned attribute holding v
Attr(v) == <<v>>
\* a number n/d (the result of Python's true division is kept exact)
Num(n, d) == <<n, d>>
\* the exception of a division by zero
ZeroDivisionError == <<"ZeroDivisionError">>
\* [x]*3
List3(x) == [c \in Comps |-> x]

VARIABLES
    _meas,          \* None until the meas setter first runs, then Attr(bool)
    _cycles,        \* number of cycles to be measured
    _cycle,         \* cycles counted so far
    _start_tick,
    _end_tick,
    _freq_black,    \* calibration references
    _freq_white,
    _S2, _S3,       \* filter select lines
    irq_handler,    \* handler registered on the OUT pin: "_cbf" or "None"
    tim_armed,      \* the one-shot timeout timer is running
    clock,          \* time.ticks_us()
    period,         \* period of the OUT signal, in ticks
    pc,             \* position of the application thread
    caller,         \* who awaits the value of meas_freqs
    freqs,          \* the local list of meas_freqs (the object it returns)
    \* history variables
    phase,          \* what happened to the measurement armed last
    clean,          \* no cycles change since the measurement was armed
    edges,          \* rising edges handled by _cbf since the last arming
    ignored,        \* a rising edge arrived while no handler was registered
    rejected,       \* the last call of the application was a rejected cycles=
    refs0,          \* the references when the calibrate() under way was called
    calls,          \* calls of calibrate() and of meas_freqs made so far
    redisarmed,     \* the last meas = OFF found the measurement disarmed
    rgb             \* the normalize call made since the last read, if any:
                    \* <<component, raw value, what normalize gave>>

driver == <<_meas, _cycles, _cycle, _start_tick, _end_tick, irq_handler, tim_armed>>
calibration == <<_freq_black, _freq_white>>
lines == <<_S2, _S3>>
app == <<pc, caller, freqs, refs0, calls>>
vars == <<_meas, _cycles, _cycle, _start_tick, _end_tick, _freq_black,
          _freq_white, _S2, _S3, irq_handler, tim_armed, clock, period, pc,
          caller, freqs, phase, clean, edges, ignored, rejected, refs0, calls,
          redisarmed, rgb>>

(* ------------------------------ __init__ ------------------------------- *)
Init ==
    /\ _meas = None
    /\ _cycles = InitCycles
    /\ _cycle = 0
    /\ _start_tick = 0
    /\ _end_tick = 0
    /\ _freq_black = List3(Num(0, 1))
    /\ _freq_white = List3(Num(0, 1))
    /\ _S2 = 0 /\ _S3 = 0
    /\ irq_handler = "None"
    /\ tim_armed = FALSE
    /\ clock \in Ticks
    /\ period \in Periods
    /\ pc = "idle"
    /\ caller = "none"
    /\ freqs = List3(None)
    /\ phase = "never"
    /\ clean = TRUE
    /\ edges = 0
    /\ ignored = FALSE
    /\ rejected = FALSE
    /\ refs0 = <<List3(Num(0, 1)), List3(Num(0, 1))>>
    /\ calls = 0
    /\ redisarmed = FALSE
    /\ rgb = None

(* --------------------------- filter setter ----------------------------- *)
\* a setter that writes the two lines the wrong way round
filter_set_swapped(filter_setting) ==
    /\ _S2' = filter_setting[2]
    /\ _S3' = filter_setting[1]

filter_set(filter_setting) ==
    /\ _S2' = filter_setting[1]
    /\ _S3' = filter_setting[2]

filter_get == <<_S2, _S3>>

(* --------------------------- cycles setter ----------------------------- *)
\* the test written as "< 0": a request for 0 cycles is accepted
cycles_rejected_below_zero(no_of_cycles) == no_of_cycles < 0

cycles_rejected(no_of_cycles) == no_of_cycles < 1

cycles_set(no_of_cycles) ==
    IF cycles_rejected(no_of_cycles)
    THEN _cycles' = _cycles
    ELSE _cycles' = no_of_cycles

(* ---------------------------- meas setter ------------------------------ *)
\* arming that forgets to clear the end tick of the previous measurement
meas_on_keeps_end_tick ==
    /\ _meas' = Attr(TRUE)
    /\ _cycle' = 0
    /\ _start_tick' = 0
    /\ _end_tick' = _end_tick
    /\ irq_handler' = "_cbf"
    /\ tim_armed' = TRUE

\* meas = ON: the code tests nothing before it resets and registers
meas_on ==
    /\ _meas' = Attr(TRUE)
    /\ _cycle' = 0
    /\ _start_tick' = 0
    /\ _end_tick' = 0
    /\ irq_handler' = "_cbf"
    /\ tim_armed' = TRUE

\* a meas = OFF that negates the flag instead of clearing it
meas_off_flips ==
    /\ _meas' = Attr(_meas # Attr(TRUE))
    /\ irq_handler' = "None"
    /\ tim_armed' = FALSE

\* a meas = OFF that leaves the timeout timer running
meas_off_keeps_timer ==
    /\ _meas' = Attr(FALSE)
    /\ irq_handler' = "None"
    /\ tim_armed' = tim_armed

\* meas = OFF, the part common to the caller's use and to _cbf's
meas_off ==
    /\ _meas' = Attr(FALSE)
    /\ irq_handler' = "None"
    /\ tim_armed' = FALSE

(* -------------------------------- calib -------------------------------- *)
\* a getter that hands out the other reference
calib_swapped(black_or_white) ==
    IF black_or_white = BLACK THEN _freq_white ELSE _freq_black

calib(black_or_white) ==
    IF black_or_white = BLACK THEN _freq_black ELSE _freq_white

(* ------------------------------ normalize ------------------------------ *)
\* top, the maximum of a colour component
TOP == 255

\* the failure of a normalization whose two references are equal
DegenerateCalibration == <<"DegenerateCalibration">>

Abs(n) == IF n < 0 THEN -n ELSE n

RECURSIVE GCD(_, _)
GCD(a, b) == IF b = 0 THEN a ELSE GCD(b, a % b)

\* x - y of two fractions
Minus(x, y) == Num(x[1] * y[2] - y[1] * x[2], x[2] * y[2])

\* x / y of two fractions, y # 0, cancelled before it is multiplied out
Over(x, y) ==
    LET g == GCD(Abs(x[1]), Abs(y[1]))
        h == GCD(Abs(x[2]), Abs(y[2]))
    IN  Num((x[1] \div g) * (y[2] \div h), (x[2] \div h) * (y[1] \div g))

\* the integer part of top * x, for a fraction x
Scaled(top, x) ==
    LET n == IF x[2] < 0 THEN -x[1] ELSE x[1]
        d == Abs(x[2])
    IN  IF n >= 0 THEN (top * n) \div d ELSE -((top * (-n)) \div d)

Clamp(v, top) == IF v < 0 THEN 0 ELSE IF v > top THEN top ELSE v

\* a normalization with no test of the references
normalize_unguarded(component, raw_value, top) ==
    LET Fb == calib(BLACK)[component]
        Fw == calib(WHITE)[component]
    IN  IF Minus(Fw, Fb)[1] = 0
        THEN ZeroDivisionError
        ELSE Num(Clamp(Scaled(top, Over(Minus(raw_value, Fb), Minus(Fw, Fb))),
                       top), 1)

\* rgb = top * (Fv - Fb) / (Fw - Fb), clamped into 0 .. top
normalize(component, raw_value, top) ==
    LET Fb == calib(BLACK)[component]
        Fw == calib(WHITE)[component]
    IN  IF Minus(Fw, Fb)[1] = 0
        THEN DegenerateCalibration
        ELSE Num(Clamp(Scaled(top, Over(Minus(raw_value, Fb), Minus(Fw, Fb))),
                       top), 1)

(* ---------------------------- measured_freq ---------------------------- *)
measured_freq(end_tick, start_tick, cycles) ==
    LET duration == end_tick - start_tick
    IN  IF duration = 0 THEN ZeroDivisionError
        ELSE Num(1000000 * cycles, duration)

(* -------------------------------- _cbf --------------------------------- *)
\* the boundary test written with ">": one edge more is counted
cbf_reached_strict(cycle, cycles) == cycle > cycles

cbf_reached(cycle, cycles) == cycle >= cycles

cbf(t) ==
    /\ _start_tick' = IF _cycle = 0 THEN t ELSE _start_tick
    /\ IF cbf_reached(_cycle, _cycles)
       THEN /\ _end_tick' = t
            /\ meas_off
            /\ _cycle' = _cycle
            /\ phase' = "completed"
       ELSE /\ _cycle' = _cycle + 1
            /\ UNCHANGED <<_end_tick, _meas, irq_handler, tim_armed, phase>>
    /\ edges' = edges + 1
    /\ UNCHANGED <<_cycles, ignored>>

(* ------------------- interrupts: rising edge, timer -------------------- *)
\* A rising edge of OUT, one period after the previous one.
Edge ==
    /\ clock' = (clock + period) % TICKS_PERIOD
    /\ IF irq_handler = "_cbf"
       THEN cbf(clock')
       ELSE /\ ignored' = TRUE
            /\ UNCHANGED <<driver, phase, edges>>
    /\ UNCHANGED <<calibration, lines, period, app, clean, rejected,
                   redisarmed, rgb>>

\* a timeout handler that leaves the edge handler registered
timeout_keeps_handler == irq_handler' = irq_handler

timeout_unregister == irq_handler' = "None"

\* The one-shot timer expires: _timeout_handler unregisters the edge
\* handler and raises inside the callback.
Timeout ==
    /\ tim_armed
    /\ tim_armed' = FALSE
    /\ timeout_unregister
    /\ phase' = "timedout"
    /\ UNCHANGED <<_meas, _cycles, _cycle, _start_tick, _end_tick>>
    /\ UNCHANGED <<calibration, lines, clock, period, app, clean, edges,
                   ignored, rejected, redisarmed, rgb>>

(* ------------- the driver's interface, called in any order ------------- *)
CyclesSet(n) ==
    /\ pc = "idle"
    /\ cycles_set(n)
    /\ rejected' = cycles_rejected(n)
    /\ clean' = (clean /\ _cycles' = _cycles)
    /\ UNCHANGED <<_meas, _cycle, _start_tick, _end_tick, irq_handler, tim_armed>>
    /\ UNCHANGED <<calibration, lines, clock, period, app, phase, edges,
                   ignored, redisarmed, rgb>>

\* meas = ON
MeasOn ==
    /\ pc = "idle"
    /\ meas_on
    /\ period' \in Periods
    /\ phase' = "armed"
    /\ clean' = TRUE
    /\ edges' = 0
    /\ ignored' = FALSE
    /\ rejected' = FALSE
    /\ redisarmed' = FALSE
    /\ UNCHANGED <<_cycles, calibration, lines, clock, app, rgb>>

\* meas = OFF
MeasOff ==
    /\ pc = "idle"
    /\ meas_off
    /\ phase' = "disarmed"
    /\ rejected' = FALSE
    /\ redisarmed' = (phase = "disarmed")
    /\ UNCHANGED <<_cycles, _cycle, _start_tick, _end_tick>>
    /\ UNCHANGED <<calibration, lines, clock, period, app, clean, edges,
                   ignored, rgb>>

FilterSet(f) ==
    /\ pc = "idle"
    /\ filter_set(f)
    /\ rejected' = FALSE
    /\ UNCHANGED <<driver, calibration, clock, period, app, phase, clean,
                   edges, ignored, redisarmed, rgb>>

Next ==
    \/ \E n \in CycleInputs : CyclesSet(n)
    \/ MeasOn
    \/ MeasOff
    \/ \E f \in Filters : FilterSet(f)
    \/ Edge
    \/ Timeout

Spec == Init /\ [][Next]_vars

(* ------------------- properties of the edge counter -------------------- *)
\* the frequency n/d equals 1000000/p
IsMegaOver(f, p) == f # ZeroDivisionError /\ f[1] * p = 1000000 * f[2]

\* C1: after an arming, and with no disarm, timeout or cycles change in
\* between, the edge handler ends the measurement (writes _end_tick with the
\* tick of that edge and unregisters itself) on the (_cycles+1)-th rising
\* edge, with _cycle = _cycles, and on no earlier edge.
C1_CompletesOnLastEdge ==
    [][ (phase = "armed" /\ clean /\ edges' = edges + 1) =>
          /\ edges' <= _cycles + 1
          /\ IF edges' = _cycles + 1
             THEN /\ irq_handler' = "None"
                  /\ _end_tick' = clock'
                  /\ _cycle' = _cycles
             ELSE /\ irq_handler' = "_cbf"
                  /\ _end_tick' = 0
                  /\ _cycle' = edges' ]_vars

\* a measurement of MaxCycles cycles at the step that completed it
C1_Witness ==
    /\ phase = "completed" /\ clean
    /\ edges = _cycles + 1
    /\ _cycle = _cycles
    /\ _cycles = MaxCycles
    /\ irq_handler = "None"
    /\ _end_tick = clock

\* C3: once a measurement was cancelled, by meas = OFF or by the timeout
\* callback, no edge handler is registered and no step before the next
\* arming (a rising edge least of all) changes _cycle, _start_tick, _end_tick.
C3_NoMutationAfterCancel ==
    [][ (phase \in {"disarmed", "timedout"} /\ phase' = phase) =>
          /\ irq_handler = "None" /\ irq_handler' = "None"
          /\ UNCHANGED <<_cycle, _start_tick, _end_tick>> ]_vars

\* a measurement that timed out after its first edge, and an edge after that
C3_Witness ==
    /\ phase = "timedout"
    /\ ignored
    /\ _cycle = 1
    /\ _end_tick = 0

\* C4: _meas is true exactly while a measurement is armed and has neither
\* completed, nor timed out, nor been disarmed.
C4_ActiveIffArmed == (_meas = Attr(TRUE)) <=> (phase = "armed")

\* C5: meas = ON while a measurement is armed is rejected: counter, ticks,
\* handler registration and timer stay as they are.
C5_RearmRejected ==
    [][ (phase = "armed" /\ MeasOn) =>
          UNCHANGED <<_cycle, _start_tick, _end_tick, irq_handler, tim_armed>> ]_vars

\* C6 as claimed: in every state, _end_tick is set only if _cycle has reached
\* _cycles, and it is unset between arming and the completing edge.
C6_EndTickOnlyAtTarget ==
    /\ (_end_tick # 0 => _cycle >= _cycles)
    /\ (phase = "armed" => _end_tick = 0)

\* C6 as amended: _end_tick is set only by a step taken with _cycle >=
\* _cycles, so that _cycle has reached the _cycles in force when _end_tick
\* was written and until cycles is next set; it is unset between arming and
\* the completing edge.
C6_EndTickSetOnlyByCompletingEdge ==
    /\ [](phase = "armed" => _end_tick = 0)
    /\ []((_end_tick # 0 /\ clean) => _cycle >= _cycles)
    /\ [][ (_end_tick' # _end_tick /\ _end_tick' # 0) =>
             (_cycle >= _cycles /\ _cycle' = _cycle /\ _cycles' = _cycles) ]_vars

\* a completed measurement whose _end_tick is set
C6_Witness ==
    /\ phase = "completed"
    /\ _end_tick # 0
    /\ _cycle = _cycles

\* C7: a completed measurement of edges one period apart has the duration
\* _cycles * period and the frequency 1000000 / period.
C7_DurationIsCyclesTimesPeriod ==
    (phase = "completed" /\ clean) =>
        /\ _end_tick - _start_tick = _cycles * period
        /\ IsMegaOver(measured_freq(_end_tick, _start_tick, _cycles), period)

\* C10: a cycles value below 1 is rejected and leaves _cycles as it was, and
\* _cycles >= 1 in every reachable state.
C10_CyclesAtLeastOne ==
    /\ [](_cycles >= 1)
    /\ [][ (\E n \in CycleInputs : n < 1 /\ CyclesSet(n)) =>
             _cycles' = _cycles ]_vars

\* the application has just asked for fewer than 1 cycles
C10_Witness == rejected /\ _cycles >= 1

(* ------------------- meas_freqs and calibrate -------------------------- *)
Polls == {"poll_red", "poll_green", "poll_blue"}

\* history kept at every arming done by meas_freqs
armed_by_read ==
    /\ period' \in Periods
    /\ phase' = "armed"
    /\ clean' = TRUE
    /\ edges' = 0
    /\ ignored' = FALSE
    /\ rejected' = FALSE
    /\ redisarmed' = FALSE

\* a wait loop that does not wait
poll_done_at_once(end_tick) == TRUE

\* while self._end_tick == 0: time.sleep_ms(10)
poll_done(end_tick) == end_tick # 0

\* meas_freqs up to its first wait: the list, the red filter, the arming
begin_read(who) ==
    /\ freqs' = List3(None)
    /\ filter_set(RED)
    /\ meas_on
    /\ armed_by_read
    /\ pc' = "poll_red"
    /\ caller' = who
    /\ rgb' = None
    /\ UNCHANGED <<_cycles, calibration, clock>>

\* a read that, on an exception, hands out the list as far as it was filled
propagate_partial(exc) ==
    /\ pc' = "failed"
    /\ _freq_black' = IF caller = "black" THEN freqs ELSE _freq_black
    /\ _freq_white' = IF caller = "white" THEN freqs ELSE _freq_white
    /\ UNCHANGED <<freqs, refs0>>

\* an exception leaves meas_freqs, and calibrate with it, before any
\* assignment of the value meas_freqs would have returned
propagate(exc) ==
    /\ pc' = "failed"
    /\ UNCHANGED <<calibration, freqs, refs0>>

\* a return that keeps the list of every read as the white reference
return_freqs_keeps_read(value) ==
    /\ _freq_black' = IF caller = "black" THEN value ELSE _freq_black
    /\ _freq_white' = IF caller \in {"white", "read"} THEN value ELSE _freq_white
    /\ pc' = IF caller = "black" THEN "input_white" ELSE "idle"
    /\ refs0' = IF caller = "black" THEN refs0 ELSE <<_freq_black', _freq_white'>>

\* return freqs, to the assignment in calibrate or to the caller of the read
return_freqs(value) ==
    /\ _freq_black' = IF caller = "black" THEN value ELSE _freq_black
    /\ _freq_white' = IF caller = "white" THEN value ELSE _freq_white
    /\ pc' = IF caller = "black" THEN "input_white" ELSE "idle"
    /\ refs0' = IF caller = "black" THEN refs0 ELSE <<_freq_black', _freq_white'>>

\* one pass of a wait loop of meas_freqs and, once it ends, the code up to
\* the next wait: here the red and the green one, followed by an arming
poll_then_arm(at, comp, next_filter, next_pc) ==
    /\ pc = at
    /\ IF ~poll_done(_end_tick)
       THEN UNCHANGED vars
       ELSE LET f == measured_freq(_end_tick, _start_tick, _cycles)
            IN  IF f = ZeroDivisionError
                THEN /\ propagate(f)
                     /\ UNCHANGED <<driver, lines, clock, period, caller, phase,
                                    clean, edges, ignored, rejected, calls, redisarmed,
                                    rgb>>
                ELSE /\ freqs' = [freqs EXCEPT ![comp] = f]
                     /\ filter_set(next_filter)
                     /\ meas_on
                     /\ armed_by_read
                     /\ pc' = next_pc
                     /\ UNCHANGED <<_cycles, calibration, clock, caller, refs0,
                                    calls, rgb>>

PollRed == poll_then_arm("poll_red", RED_COMP, GREEN, "poll_green")

PollGreen == poll_then_arm("poll_green", GREEN_COMP, BLUE, "poll_blue")

\* the last wait loop, followed by the return
PollBlue ==
    /\ pc = "poll_blue"
    /\ IF ~poll_done(_end_tick)
       THEN UNCHANGED vars
       ELSE LET f == measured_freq(_end_tick, _start_tick, _cycles)
            IN  /\ IF f = ZeroDivisionError
                   THEN propagate(f)
                   ELSE /\ freqs' = [freqs EXCEPT ![BLUE_COMP] = f]
                        /\ return_freqs(freqs')
                /\ UNCHANGED <<driver, lines, clock, period, caller, phase,
                               clean, edges, ignored, rejected, calls, redisarmed,
                                    rgb>>

\* a read whose value is not kept as a reference
ReadFreqs ==
    /\ pc \in {"idle", "failed"}
    /\ calls < MaxCalls
    /\ calls' = calls + 1
    /\ refs0' = <<_freq_black, _freq_white>>
    /\ begin_read("read")

\* calibrate() is entered and waits for the operator
Calibrate ==
    /\ pc \in {"idle", "failed"}
    /\ calls < MaxCalls
    /\ calls' = calls + 1
    /\ pc' = "input_black"
    /\ caller' = "none"
    /\ refs0' = <<_freq_black, _freq_white>>
    /\ rejected' = FALSE
    /\ rgb' = None
    /\ UNCHANGED <<driver, calibration, lines, clock, period, freqs, phase,
                   clean, edges, ignored, redisarmed>>

\* wait_for_return() returns and the read of the reference starts
WaitForReturn ==
    /\ pc \in {"input_black", "input_white"}
    /\ begin_read(IF pc = "input_black" THEN "black" ELSE "white")
    /\ UNCHANGED <<refs0, calls>>

\* the frequencies the application has at hand for a component
RawInputs(c) ==
    {_freq_black[c], _freq_white[c]} \cup
        (IF freqs[c] = None THEN {} ELSE {freqs[c]})

\* the application normalizes one component of a frequency it holds
Normalize ==
    /\ pc = "idle"
    /\ \E c \in Comps : \E raw \in RawInputs(c) :
           rgb' = <<c, raw, normalize(c, raw, TOP)>>
    /\ rejected' = FALSE
    /\ UNCHANGED <<driver, calibration, lines, clock, period, pc, caller,
                   freqs, phase, clean, edges, ignored, refs0, calls,
                   redisarmed>>

CalNext ==
    \/ Calibrate
    \/ Normalize
    \/ WaitForReturn
    \/ ReadFreqs
    \/ PollRed
    \/ PollGreen
    \/ PollBlue
    \/ Edge
    \/ Timeout

CalSpec == Init /\ [][CalNext]_vars

\* The wait loops keep running and the OUT signal keeps toggling.
FairCalSpec ==
    /\ CalSpec
    /\ WF_vars(PollRed) /\ WF_vars(PollGreen) /\ WF_vars(PollBlue)
    /\ WF_vars(Edge)

(* --------------- properties of the read and of calibrate --------------- *)
\* the components of the list of meas_freqs that hold a frequency
Filled == {c \in Comps : freqs[c] # None}

Complete(triple) == \A c \in Comps : triple[c] # None

\* C2: when the timeout timer fires during a wait of meas_freqs, the wait
\* ends and the caller sees the failure.
C2_TimeoutEndsWait == (pc \in Polls /\ phase = "timedout") ~> (pc = "failed")

C9_FailureLeavesReferences ==
    (pc = "failed" /\ caller \in {"black", "white"}) =>
        <<_freq_black, _freq_white>> = refs0

\* C9 as amended: a measurement of calibrate() that fails, or times out,
\* leaves the reference it was to capture as it was when calibrate() was
\* called: both references if it is the black read; the white reference if
\* it is the white read, the black one then holding a complete triple.
C9_FailureLeavesCapturedReference ==
    (caller \in {"black", "white"} /\
     (pc = "failed" \/ (pc \in Polls /\ phase = "timedout"))) =>
        /\ caller = "black" => <<_freq_black, _freq_white>> = refs0
        /\ caller = "white" => (_freq_white = refs0[2] /\ Complete(_freq_black))

\* the white read fails after the black read of the same calibrate() has
\* replaced the black reference
C9_Witness ==
    /\ pc = "failed" /\ caller = "white"
    /\ _freq_black # refs0[1]
    /\ _freq_white = refs0[2]
    /\ Filled = {RED_COMP}

(* ------------------- further properties of the driver ------------------ *)
\* C11: meas = OFF can be called in any state, and a meas = OFF made when
\* the measurement is already disarmed raises nothing and leaves the flag,
\* the registered handler, the timer, the counters, the ticks, the filter
\* lines and the references as they were.
C11_DisarmIdempotent ==
    /\ [](ENABLED MeasOff)
    /\ [][ (phase = "disarmed" /\ MeasOff) =>
             UNCHANGED <<driver, calibration, lines>> ]_vars

\* a second meas = OFF in a row, after a measurement that had counted edges
C11_Witness ==
    /\ redisarmed
    /\ phase = "disarmed"
    /\ _cycle > 0
    /\ _meas = Attr(FALSE) /\ irq_handler = "None" /\ ~tim_armed

\* C12: a measurement that completed with _end_tick = _start_tick makes
\* measured_freq report a degenerate measurement, not divide by zero.
C12_ZeroDurationReported ==
    (phase = "completed" /\ _end_tick = _start_tick) =>
        measured_freq(_end_tick, _start_tick, _cycles) # ZeroDivisionError

\* C13: when the tick counter wrapped between the first and the completing
\* edge (_end_tick below _start_tick), the duration measured_freq divides by
\* is the elapsed ticks, (_end_tick - _start_tick) modulo the width of the
\* counter, and the frequency is positive.
C13_WrapHandled ==
    (phase = "completed" /\ clean /\ _end_tick < _start_tick) =>
        LET f == measured_freq(_end_tick, _start_tick, _cycles)
        IN  /\ f # ZeroDivisionError
            /\ f[2] = (_end_tick - _start_tick) % TICKS_PERIOD
            /\ f[1] * f[2] > 0

\* C14: while a measurement is active (armed, and neither completed, timed
\* out nor disarmed) no step changes the filter select lines.
C14_LinesFixedWhileActive ==
    [][ phase = "armed" => UNCHANGED lines ]_vars

\* C15: both reference triples are all zero after construction, and a step
\* changes one of them only as the return of a read made by calibrate():
\* that step stores the complete list of the read in the reference the
\* read was made for and leaves the other one alone. Armings, edges,
\* timeouts, setters and plain reads change neither.
C15_ReferencesOnlyByCalibrate ==
    /\ _freq_black = List3(Num(0, 1))
    /\ _freq_white = List3(Num(0, 1))
    /\ [][ calibration' # calibration =>
             /\ pc = "poll_blue"
             /\ caller \in {"black", "white"}
             /\ Complete(freqs')
             /\ IF caller = "black"
                THEN _freq_black' = freqs' /\ _freq_white' = _freq_white
                ELSE _freq_white' = freqs' /\ _freq_black' = _freq_black ]_vars

\* a plain read has returned its three frequencies and the references are
\* still the zeros of the constructor
C15_Witness ==
    /\ pc = "idle"
    /\ caller = "read"
    /\ Complete(freqs)
    /\ phase = "completed"
    /\ _freq_black = List3(Num(0, 1))
    /\ _freq_white = List3(Num(0, 1))

(* ----------------------- properties of normalize ----------------------- *)
\* the two references of component c differ in value
Spread(c) == Minus(_freq_white[c], _freq_black[c])[1] # 0

C17_EqualReferencesDegenerate ==
    [][ (rgb' # rgb /\ rgb' # None) =>
          (~Spread(rgb'[1]) => rgb'[3] = DegenerateCalibration) ]_vars

\* a calibration measured the same frequency for black and for white in a
\* component, and that component was normalized
C17_Witness ==
    /\ rgb # None
    /\ _freq_white[rgb[1]] = _freq_black[rgb[1]]
    /\ _freq_black[rgb[1]] # Num(0, 1)
    /\ rgb[3] = DegenerateCalibration

(* ------------------ filter, timer and counter properties --------------- *)
\* C18: after filter = f the filter getter returns f, for each of RED,
\* GREEN, BLUE and CLEAR; the four are four different states of the lines
\* (S2, S3), and the lines are always in exactly one of them.
C18_FilterRoundTrip ==
    /\ Cardinality({RED, GREEN, BLUE, CLEAR}) = 4
    /\ [](Cardinality({f \in Filters : filter_get = f}) = 1)
    /\ [][ \A f \in Filters : FilterSet(f) => filter_get' = f ]_vars

\* the getter returns CLEAR, which only filter = CLEAR brings about
C18_Witness ==
    /\ filter_get = CLEAR
    /\ filter_get # RED /\ filter_get # GREEN /\ filter_get # BLUE

\* C19: the edge that completes a measurement stops the timeout timer, so
\* no timeout follows a completion, the timer runs only while the
\* measurement it was started for is armed, and when meas_freqs arms the
\* next colour no timer of the colour before it is still running.
C19_CompletionCancelsTimer ==
    /\ [](phase = "completed" => ~tim_armed)
    /\ [](tim_armed => phase = "armed")
    /\ [][ phase = "completed" => phase' # "timedout" ]_vars
    /\ [][ (pc \in Polls /\ phase' = "armed" /\ phase # "armed") =>
             ~tim_armed ]_vars

\* inside a read, the red measurement is over and the green one has just
\* been completed by its last edge, with the timer stopped
C19_Witness ==
    /\ pc = "poll_green"
    /\ phase = "completed"
    /\ edges = _cycles + 1
    /\ _end_tick # 0
    /\ ~tim_armed

\* C20 as claimed: 0 <= _cycle <= _cycles in every reachable state.
C20_CycleWithinTarget == 0 <= _cycle /\ _cycle <= _cycles

\* C20: _cycle is never negative, the edge handler increments it by one and
\* only while it is below _cycles, and _cycle <= _cycles as long as cycles
\* has not been set since the arming.
C20_CycleWithinTargetInForce ==
    /\ [](_cycle >= 0)
    /\ [](clean => _cycle <= _cycles)
    /\ [][ _cycle' > _cycle =>
             (_cycle < _cycles /\ _cycle' = _cycle + 1) ]_vars

\* during a measurement that has counted edges, cycles was set below the
\* count reached
C20_Witness ==
    /\ phase = "armed"
    /\ ~clean
    /\ edges = _cycle
    /\ _cycle > _cycles

(* --------------------- completion as seen by the wait ------------------ *)
\* C21: whenever the edge handler has completed a measurement, the test the
\* wait loop of meas_freqs makes on _end_tick lets the loop end, whatever
\* tick the completing edge was stamped with.
C21_CompletionObservable == phase = "completed" => poll_done(_end_tick)

\* C21, its consequence: a wait of meas_freqs whose measurement has been
\* completed is left.
C21_CompletedWaitEnds ==
    (pc \in Polls /\ phase = "completed") ~> ~(pc \in Polls /\ phase = "completed")

====
